---- MODULE Spec2Model ----
(***************************************************************************)
(* Model of scripts/find_first_events.py: the per-chain search for the     *)
(* first event block (local parquet fast path, chain-head lookup,          *)
(* exponential probe + binary refinement under a wall-clock deadline) and  *)
(* the sequential main loop over the configured chains.                    *)
(*                                                                         *)
(* Block numbers are the real ones (the windows are 2,000 .. 2,000,000     *)
(* blocks); time is counted in hundredths of a second, so that the         *)
(* 0.02 s pacing sleep is 2 ticks and the 90 s budget is 9,000 ticks.      *)
(***************************************************************************)
EXTENDS Integers, Sequences, FiniteSets, TLC

(***************************************************************************)
(* Program constants.                                                      *)
(***************************************************************************)
INIT_WINDOW == 2000

MAX_WINDOW == 2000000

PER_CHAIN_TIMEOUT == 90

\* the floor of the shrink, max(500, window // 4)
MIN_WINDOW == 500

\* time.sleep(0.02), in ticks of 1/100 s
PACING == 2

(***************************************************************************)
(* Bounds of the model.                                                    *)
(***************************************************************************)
\* how many range queries of one search the endpoint may fail
MaxFailures == 2

\* how many range queries of one search may be slow (not answered at once)
MaxSlowCalls == 1

\* how many range queries of a search that is run twice may fail or be slow
MaxFaults == 2

(***************************************************************************)
(* Inputs of one search: the deployment block, the chain head, the blocks  *)
(* that hold a matching log, and the behaviour of the endpoint.            *)
(***************************************************************************)
DeployBlocks == {1000}

LatestBlocks == {999, 1000, 2999, 100000, 2000000}

MatchBlocks == {1000, 3000, 90000, 1500037}

\* blocks an untruthful endpoint may report, whatever the range asked
LieBlocks == {900, 1500037}

\* durations of one remote call: answered at once (0.2 s), slow (46 s),
\* and slower than the whole per-chain budget (91 s)
FastCall == {20}

SlowCalls == {4600, 9100}

\* an untruthful endpoint is modelled with calls of 15 s (the per-call
\* timeout of rpc_call) and of 91 s only
LyingCalls == {1500, 9100}

VARIABLES
    prim,       \* "truthful" | "lying": the behaviour of the endpoint
    matches,    \* the blocks of the chain that hold a matching log
    deploy,     \* find_first_event's parameter deploy
    latest,     \* find_first_event's parameter latest
    now,        \* time.monotonic(), in ticks
    deadline,   \* local deadline
    cursor,     \* local cursor
    window,     \* local window
    end,        \* local end
    lo,         \* local lo
    hi,         \* local hi
    pc,         \* position in find_first_event / scan_chain / main
    ret,        \* find_first_event's return value: <<>> is None, <<b>> a block
    cause,      \* which return statement produced ret
    log,        \* every range query issued by the search, in order
    slept,      \* a pacing sleep happened since the last range query
    idx,        \* main: index of the chain being processed (0: no main loop)
    results,    \* main: one record per processed chain, in order
    remote,     \* scan_chain: remote calls issued for the current chain
    has_parquet,\* HAS_PARQUET: pyarrow could be imported
    parquet,    \* data/<chain_id>/identity.parquet of the current chain
    answers,    \* test_rpcs: how the endpoint answers each range of TEST_RANGES
    tried,      \* check_max_range: how many ranges the loop has been through
    best        \* check_max_range: local best

vars == <<prim, matches, deploy, latest, now, deadline, cursor, window, end,
          lo, hi, pc, ret, cause, log, slept, idx, results, remote,
          has_parquet, parquet, answers, tried, best>>

\* the state of check_max_range (test_rpcs.py)
rangeVars == <<answers, tried, best>>

\* what find_first_event never touches
mainVars == <<idx, results, has_parquet, parquet, rangeVars>>

(***************************************************************************)
(* Python values.                                                          *)
(***************************************************************************)
\* None and an int | None that is present
None == <<>>

Some(v) == <<v>>

Min2(a, b) == IF a <= b THEN a ELSE b

Max2(a, b) == IF a >= b THEN a ELSE b

SetMin(S) == CHOOSE m \in S : \A n \in S : m <= n

\* the number of hexadecimal digits of n >= 0 (block numbers fit in 8)
HexLen(n) ==
    IF n = 0 THEN 1 ELSE CHOOSE k \in 1..8 : (n \div 16^(k - 1)) \in 1..15

\* hex(n) for n >= 0, as the sequence of its hexadecimal digits, most
\* significant first
Hex(n) == [i \in 1..HexLen(n) |-> (n \div 16^(HexLen(n) - i)) % 16]

\* int(s, 16)
IntOfHex(s) ==
    LET value[i \in 0..Len(s)] ==
          IF i = 0 THEN 0 ELSE 16 * value[i - 1] + s[i]
    IN value[Len(s)]

\* the blocks of S in ascending order: the i-th is the one with i - 1
\* smaller blocks in S
Ascending(S) ==
    [i \in 1..Cardinality(S) |->
       CHOOSE m \in S : Cardinality({x \in S : x < m}) = i - 1]

(***************************************************************************)
(* The endpoint.  A reply is [ok |-> FALSE] (rpc_call returned an error    *)
(* object) or [ok |-> TRUE, result |-> the logs], each log carrying its    *)
(* blockNumber as a hexadecimal string.                                    *)
(***************************************************************************)
Failure == [ok |-> FALSE, result |-> <<>>]

Success(blocks) ==
    [ok |-> TRUE, result |-> [i \in 1..Len(blocks) |-> Hex(blocks[i])]]

\* the truthful answer to eth_getLogs(fromBlock, toBlock), as a one-element
\* set: the endpoint decodes the two bounds f and t and answers the matches
\* of the inclusive range, in ascending block order
TruthfulReply(fromBlock, toBlock) ==
    {Success(Ascending({m \in matches : f <= m /\ m <= t})) :
       f \in {IntOfHex(fromBlock)}, t \in {IntOfHex(toBlock)}}

Failed(l) == Cardinality({i \in 1..Len(l) : ~l[i].ok})

Slow(l) == Cardinality({i \in 1..Len(l) : l[i].took \notin FastCall})

\* what the endpoint may answer to one eth_getLogs call
Replies(fromBlock, toBlock) ==
    (IF Failed(log) < MaxFailures THEN {Failure} ELSE {})
    \cup (IF prim = "truthful"
          THEN TruthfulReply(fromBlock, toBlock)
          ELSE {Success(<<>>)} \cup {Success(<<b>>) : b \in LieBlocks})

\* how long one call may take
Durations ==
    IF prim = "lying" THEN LyingCalls
    ELSE FastCall \cup (IF Slow(log) < MaxSlowCalls THEN SlowCalls ELSE {})

(***************************************************************************)
(* get_logs: the reply as the caller sees it, None or the list of logs.    *)
(***************************************************************************)
\* resp.get("result") if "result" in resp else None
get_logs(reply) == IF reply.ok THEN Some(reply.result) ELSE None

IsNone(v) == v = None

\* Python truthiness of a list | None: a non-empty list
Truthy(v) == v # None /\ Len(v[1]) > 0

\* int(logs[0]["blockNumber"], 16)
FirstBlock(v) == IntOfHex(v[1][1])

\* the record of one range query
Query(kind, fr, to, reply, took) ==
    [kind |-> kind, fr |-> fr, to |-> to, at |-> now, took |-> took,
     ok |-> reply.ok, n |-> Len(reply.result),
     first |-> IF reply.ok /\ Len(reply.result) > 0
               THEN IntOfHex(reply.result[1]) ELSE -1,
     window |-> window, paced |-> slept]

(***************************************************************************)
(* The local dataset of a chain: no file, a file that cannot be read or    *)
(* parsed, or a table whose block_number column is the given rows.         *)
(***************************************************************************)
Missing == [kind |-> "missing", rows |-> <<>>]

Corrupt == [kind |-> "corrupt", rows |-> <<>>]

Table(rows) == [kind |-> "table", rows |-> rows]

LocalData ==
    {Missing, Corrupt, Table(<<>>), Table(<<1500, 1200>>), Table(<<1200, 1500>>)}

\* a resolver without the try/except of lines 95-99, an unreadable file
\* being taken for a table that starts at block 0
from_local_parquetUnguarded(data) ==
    IF ~has_parquet THEN None
    ELSE IF data.kind = "missing" THEN None
    ELSE IF data.kind = "corrupt" THEN Some(0)
    ELSE IF Len(data.rows) > 0 THEN Some(data.rows[1]) ELSE None

\* from_local_parquet, lines 89-99
from_local_parquet(data) ==
    IF ~has_parquet THEN None
    ELSE IF data.kind = "missing" THEN None
    ELSE IF data.kind = "corrupt" THEN None
    ELSE IF Len(data.rows) > 0 THEN Some(data.rows[1]) ELSE None

(***************************************************************************)
(* find_first_event, lines 102-140.                                        *)
(***************************************************************************)
\* the per-chain budget in ticks
Budget == PER_CHAIN_TIMEOUT * 100

\* while cursor <= latest and time.monotonic() < deadline
ProbeCond == cursor <= latest /\ now < deadline

\* a window end that is not capped at the chain head
ProbeEndUncapped(c, w) == c + w - 1

\* min(cursor + window - 1, latest)
ProbeEnd(c, w) == Min2(c + w - 1, latest)

\* a shrink that forgets the floor
ShrinkNoFloor(w) == w \div 4

\* window = max(500, window // 4)
Shrink(w) == Max2(MIN_WINDOW, w \div 4)

\* a window that never grows
GrowNone(w) == Min2(w, MAX_WINDOW)

\* window = min(window * 2, MAX_WINDOW)
Grow(w) == Min2(w * 2, MAX_WINDOW)

\* a cursor that stays on the last block of the window
NextCursorStay(e) == e

\* a cursor that skips the block after the window
NextCursorSkip(e) == e + 2

\* cursor = end + 1
NextCursor(e) == e + 1

\* a refinement loop that stops at twice the initial window
RefineCondWide == hi - lo > 2 * INIT_WINDOW /\ now < deadline

\* a refinement loop that forgets the deadline
RefineCondNoDeadline == hi - lo > INIT_WINDOW

\* a refinement loop that forgets the width test
RefineCondNoWidth == now < deadline

\* while hi - lo > INIT_WINDOW and time.monotonic() < deadline
RefineCond == hi - lo > INIT_WINDOW /\ now < deadline

\* a refinement that asks one block at a time
MidLow(l, h) == l

\* mid = (lo + hi) // 2
Mid(l, h) == (l + h) \div 2

\* a last line that falls back to the block after the frontier
FinalResultNext(r, h) == IF Truthy(r) THEN FirstBlock(r) ELSE h + 1

\* a last line that ignores what the final query brought
FinalResultHi(r, h) == h

\* a last line that gives the block up when the final query brings nothing
FinalResultLost(r, h) == IF Truthy(r) THEN FirstBlock(r) ELSE -1

\* return int(r[0]["blockNumber"], 16) if r else hi
FinalResult(r, h) == IF Truthy(r) THEN FirstBlock(r) ELSE h

\* an entry that keeps the window of an earlier call, as a window held in a
\* module-level variable would be
EnterKeepWindow ==
    /\ pc = "find"
    /\ deadline' = now + Budget
    /\ cursor' = deploy
    /\ window' = IF window = 0 THEN INIT_WINDOW ELSE window
    /\ pc' = "probe"
    /\ UNCHANGED <<prim, matches, deploy, latest, now, end, lo, hi, ret,
                   cause, log, slept, remote, mainVars>>

\* lines 104-106
Enter ==
    /\ pc = "find"
    /\ deadline' = now + Budget
    /\ cursor' = deploy
    /\ window' = INIT_WINDOW
    /\ pc' = "probe"
    /\ UNCHANGED <<prim, matches, deploy, latest, now, end, lo, hi, ret,
                   cause, log, slept, remote, mainVars>>

\* line 108 false, then line 140
LoopExit ==
    /\ pc = "probe"
    /\ ~ProbeCond
    /\ ret' = None
    /\ cause' = IF cursor > latest THEN "exhausted" ELSE "deadline"
    /\ pc' = "return"
    /\ UNCHANGED <<prim, matches, deploy, latest, now, deadline, cursor,
                   window, end, lo, hi, log, slept, remote, mainVars>>

\* lines 119-122 and 136-138: what follows a probe or a retry that did not
\* fail; e is the value of end, w the value of window, t the time after the call
AfterLogs(logs, e, w, t) ==
    IF Truthy(logs)
    THEN /\ lo' = cursor
         /\ hi' = FirstBlock(logs)
         /\ pc' = "refine"
         /\ now' = t
         /\ window' = w
         /\ slept' = FALSE
         /\ UNCHANGED cursor
    ELSE /\ cursor' = NextCursor(e)
         /\ window' = Grow(w)
         /\ now' = t + PACING
         /\ slept' = TRUE
         /\ pc' = "probe"
         /\ UNCHANGED <<lo, hi>>

\* lines 108-114 and, when the probe does not fail, to the end of the iteration
Probe ==
    /\ pc = "probe"
    /\ ProbeCond
    /\ end' = ProbeEnd(cursor, window)
    /\ \E reply \in Replies(Hex(cursor), Hex(end')), took \in Durations :
         LET logs == get_logs(reply) IN
         /\ log' = Append(log, Query("probe", cursor, end', reply, took))
         /\ IF IsNone(logs)
            THEN /\ window' = Shrink(window)
                 /\ pc' = "retry"
                 /\ now' = now + took
                 /\ slept' = FALSE
                 /\ UNCHANGED <<cursor, lo, hi>>
            ELSE AfterLogs(logs, end', window, now + took)
    /\ remote' = remote + 1
    /\ UNCHANGED <<prim, matches, deploy, latest, deadline, ret, cause,
                   mainVars>>

\* lines 115-117 and, when the retry does not fail, to the end of the iteration
Retry ==
    /\ pc = "retry"
    /\ LET to == ProbeEnd(cursor, window) IN
       \E reply \in Replies(Hex(cursor), Hex(to)), took \in Durations :
         LET logs == get_logs(reply) IN
         /\ log' = Append(log, Query("retry", cursor, to, reply, took))
         /\ IF IsNone(logs)
            THEN /\ ret' = None
                 /\ cause' = "failed"
                 /\ pc' = "return"
                 /\ now' = now + took
                 /\ slept' = FALSE
                 /\ UNCHANGED <<cursor, window, lo, hi>>
            ELSE /\ AfterLogs(logs, end, window, now + took)
                 /\ UNCHANGED <<ret, cause>>
    /\ remote' = remote + 1
    /\ UNCHANGED <<prim, matches, deploy, latest, deadline, end, mainVars>>

\* lines 123-131: one iteration of the refinement loop
Refine ==
    /\ pc = "refine"
    /\ RefineCond
    /\ LET mid == Mid(lo, hi) IN
       \E reply \in Replies(Hex(lo), Hex(mid)), took \in Durations :
         LET r == get_logs(reply) IN
         /\ log' = Append(log, Query("refine", lo, mid, reply, took))
         /\ now' = now + took
         /\ IF IsNone(r)
            THEN /\ pc' = "final"
                 /\ UNCHANGED <<lo, hi>>
            ELSE IF Truthy(r)
            THEN /\ hi' = FirstBlock(r)
                 /\ UNCHANGED <<lo, pc>>
            ELSE /\ lo' = mid + 1
                 /\ UNCHANGED <<hi, pc>>
    /\ slept' = FALSE
    /\ remote' = remote + 1
    /\ UNCHANGED <<prim, matches, deploy, latest, deadline, cursor, window,
                   end, ret, cause, mainVars>>

\* lines 133-134: the final precise fetch, after the loop ended or broke
Final ==
    /\ \/ pc = "final"
       \/ pc = "refine" /\ ~RefineCond
    /\ \E reply \in Replies(Hex(lo), Hex(hi)), took \in Durations :
         LET r == get_logs(reply) IN
         /\ log' = Append(log, Query("final", lo, hi, reply, took))
         /\ now' = now + took
         /\ ret' = Some(FinalResult(r, hi))
    /\ cause' = "found"
    /\ pc' = "return"
    /\ slept' = FALSE
    /\ remote' = remote + 1
    /\ UNCHANGED <<prim, matches, deploy, latest, deadline, cursor, window,
                   end, lo, hi, mainVars>>

(***************************************************************************)
(* One search on its own: find_first_event called with inputs drawn from   *)
(* the sets above.                                                         *)
(***************************************************************************)
Init ==
    /\ prim \in {"truthful", "lying"}
    /\ deploy \in DeployBlocks
    /\ latest \in LatestBlocks
    /\ matches \in SUBSET {m \in MatchBlocks : deploy <= m /\ m <= latest}
    /\ prim = "lying" => matches = {}
    /\ now = 0
    /\ deadline = 0
    /\ cursor = 0
    /\ window = 0
    /\ end = 0
    /\ lo = 0
    /\ hi = 0
    /\ pc = "find"
    /\ ret = None
    /\ cause = "none"
    /\ log = <<>>
    /\ slept = FALSE
    /\ idx = 0
    /\ results = <<>>
    /\ remote = 0
    /\ has_parquet = TRUE
    /\ parquet = Missing
    /\ answers = <<>>
    /\ tried = 0
    /\ best = 0

Next ==
    \/ Enter
    \/ LoopExit
    \/ Probe
    \/ Retry
    \/ Refine
    \/ Final

Spec == Init /\ [][Next]_vars

(***************************************************************************)
(* scan_chain and main, lines 143-179.                                     *)
(***************************************************************************)
\* the configured chains, (name, chain_id, deployment_block, is_testnet):
\* two entries of the list of lines 29-58
CHAINS ==
    << [name |-> "TaikoMainnet", chain_id |-> 167000, deploy |-> 871920,
        is_testnet |-> FALSE],
       [name |-> "EthereumSepolia", chain_id |-> 11155111, deploy |-> 8067632,
        is_testnet |-> TRUE] >>

\* what eth_blockNumber may answer for a chain deployed at d: an error, or a
\* head 10,000 blocks past the deployment block
HeadReplies(d) == {Failure, [ok |-> TRUE, result |-> Hex(d + 10000)]}

\* the blocks of a chain deployed at d that may hold a matching log
ChainMatches(d) == SUBSET {d, d + 9000}

\* a head lookup that answers block 0 when the call failed
get_latest_blockZero(reply) ==
    IF reply.ok THEN Some(IntOfHex(reply.result)) ELSE Some(0)

\* get_latest_block, lines 79-81
get_latest_block(reply) == IF reply.ok THEN Some(IntOfHex(reply.result)) ELSE None

\* source = "RPC scan" if first is not None else "timeout/no events"
Source(first) == IF first # None THEN "RPC scan" ELSE "timeout/no events"

\* the source scan_chain returns with the current chain's result: "parquet"
\* (line 151), "RPC down" (line 156), or the source of lines 159-160
CurrentSource ==
    IF cause = "parquet" THEN "parquet"
    ELSE IF cause = "head" THEN "RPC down"
    ELSE Source(ret)

\* the tuple scan_chain returns, with the return statement that produced first
Outcome(first, source, why) ==
    [name |-> CHAINS[idx].name, chain_id |-> CHAINS[idx].chain_id,
     deploy |-> CHAINS[idx].deploy, first |-> first, source |-> source,
     cause |-> why]

\* a scan that ignores the local answer
LocalHitNever(first) == FALSE

\* if first is not None: return (..., first, "parquet")
LocalHit(first) == first # None

\* a loop that stops at the first chain without a result
AfterChainAbort(first) ==
    IF first = None THEN "exit"
    ELSE IF idx < Len(CHAINS) THEN "scan" ELSE "exit"

\* for entry in CHAINS: the loop goes on with the next entry, whatever the
\* result of the chain just scanned, and ends after the last one
AfterChain(first) == IF idx < Len(CHAINS) THEN "scan" ELSE "exit"

\* scan_chain returns to main's loop body
Return(first, source, why) ==
    /\ ret' = first
    /\ cause' = why
    /\ pc' = "main"

\* lines 145-151: the local parquet file of the chain is read first (without
\* pyarrow no file is looked at, and none is drawn)
ScanLocal ==
    /\ pc = "scan"
    /\ \E data \in (IF has_parquet THEN LocalData ELSE {Missing}) :
         /\ parquet' = data
         /\ LET first == from_local_parquet(data) IN
            IF LocalHit(first)
            THEN Return(first, "parquet", "parquet")
            ELSE /\ pc' = "head"
                 /\ UNCHANGED <<ret, cause>>
    /\ deploy' = CHAINS[idx].deploy
    /\ UNCHANGED <<prim, matches, latest, now, deadline, cursor, window, end,
                   lo, hi, log, slept, idx, results, remote, has_parquet,
                   rangeVars>>

\* lines 154-158: the chain head is fetched, then the search is called
ScanHead ==
    /\ pc = "head"
    /\ \E reply \in HeadReplies(deploy), took \in FastCall,
          found \in ChainMatches(deploy) :
         /\ now' = now + took
         /\ matches' = found
         /\ LET head == get_latest_block(reply) IN
            IF head = None
            THEN /\ Return(None, "RPC down", "head")
                 /\ UNCHANGED latest
            ELSE /\ latest' = head[1]
                 /\ pc' = "find"
                 /\ UNCHANGED <<ret, cause>>
    /\ remote' = remote + 1
    /\ UNCHANGED <<prim, deploy, deadline, cursor, window, end, lo, hi, log,
                   slept, mainVars>>

\* lines 158-160: find_first_event returned
ScanFind ==
    /\ pc = "return"
    /\ idx > 0
    /\ pc' = "main"
    /\ UNCHANGED <<prim, matches, deploy, latest, now, deadline, cursor,
                   window, end, lo, hi, ret, cause, log, slept, remote,
                   mainVars>>

\* a loop that goes on with the next chain and drops the result of the chain
\* just scanned
MainRecordDiscard ==
    /\ pc = "main"
    /\ results' = results
    /\ idx' = idx + 1
    /\ pc' = AfterChain(ret)
    /\ now' = 0
    /\ deadline' = 0
    /\ cursor' = 0
    /\ window' = 0
    /\ end' = 0
    /\ lo' = 0
    /\ hi' = 0
    /\ ret' = None
    /\ cause' = "none"
    /\ log' = <<>>
    /\ slept' = FALSE
    /\ remote' = 0
    /\ matches' = {}
    /\ latest' = 0
    /\ deploy' = 0
    /\ parquet' = Missing
    /\ UNCHANGED <<prim, has_parquet, rangeVars>>

\* lines 170-179: main records and prints the chain's result and goes on
\* with the next chain; the locals of the finished scan are gone, and the
\* clock, whose reference point is undefined, is read from 0 again
MainRecord ==
    /\ pc = "main"
    /\ results' = Append(results, Outcome(ret, CurrentSource, cause))
    /\ idx' = idx + 1
    /\ pc' = AfterChain(ret)
    /\ now' = 0
    /\ deadline' = 0
    /\ cursor' = 0
    /\ window' = 0
    /\ end' = 0
    /\ lo' = 0
    /\ hi' = 0
    /\ ret' = None
    /\ cause' = "none"
    /\ log' = <<>>
    /\ slept' = FALSE
    /\ remote' = 0
    /\ matches' = {}
    /\ latest' = 0
    /\ deploy' = 0
    /\ parquet' = Missing
    /\ UNCHANGED <<prim, has_parquet, rangeVars>>

\* main starts at the first chain
MainInit ==
    /\ prim = "truthful"
    /\ has_parquet \in BOOLEAN
    /\ idx = 1
    /\ pc = "scan"
    /\ results = <<>>
    /\ remote = 0
    /\ parquet = Missing
    /\ deploy = 0
    /\ latest = 0
    /\ matches = {}
    /\ now = 0
    /\ deadline = 0
    /\ cursor = 0
    /\ window = 0
    /\ end = 0
    /\ lo = 0
    /\ hi = 0
    /\ ret = None
    /\ cause = "none"
    /\ log = <<>>
    /\ slept = FALSE
    /\ answers = <<>>
    /\ tried = 0
    /\ best = 0

MainNext ==
    \/ ScanLocal
    \/ ScanHead
    \/ Enter
    \/ LoopExit
    \/ Probe
    \/ Retry
    \/ Refine
    \/ Final
    \/ ScanFind
    \/ MainRecord

MainSpec == MainInit /\ [][MainNext]_vars

\* the searches whose termination is checked: any search against an
\* untruthful endpoint, and the searches of the first 100,000 blocks against
\* a truthful one
LiveInit == Init /\ (prim = "lying" \/ latest <= 100000)

\* the search on its own, with every call returning (each step of Next is a
\* call that returns or a loop test)
LiveSpec == LiveInit /\ [][Next]_vars /\ WF_vars(Next)

(***************************************************************************)
(* find_first_event called twice with the same arguments against an        *)
(* endpoint that answers the second call's queries as it answered the      *)
(* first call's.                                                           *)
(***************************************************************************)
\* the range queries of a search, their start times counted from the clock
\* value read at line 104
Relative(l, start) ==
    [i \in 1..Len(l) |-> [l[i] EXCEPT !.at = l[i].at - start]]

\* the caller keeps what the first call returned and calls find_first_event
\* again with the same (rpc, address, deploy, latest): the clock runs on,
\* and whatever a variable of the first call still holds is there for the
\* second call to read, if the code reads it before assigning it
Again ==
    /\ pc = "return"
    /\ idx = 0
    /\ results = <<>>
    /\ results' = <<[first |-> ret, cause |-> cause,
                     log |-> Relative(log, deadline - Budget)]>>
    /\ pc' = "find"
    /\ ret' = None
    /\ cause' = "none"
    /\ log' = <<>>
    /\ slept' = FALSE
    /\ UNCHANGED <<prim, matches, deploy, latest, now, deadline, cursor,
                   window, end, lo, hi, idx, remote, has_parquet, parquet,
                   rangeVars>>

\* the endpoint is deterministic: the i-th query of the second call, if it
\* asks the range the i-th query of the first call asked, gets the same
\* answer after the same time
SameAnswer(q, p) ==
    /\ q.ok = p.ok
    /\ q.n = p.n
    /\ q.first = p.first
    /\ q.took = p.took

Replayed ==
    results = <<>> \/
    \A i \in 1..Min2(Len(log), Len(results[1].log)) :
      (log[i].fr = results[1].log[i].fr /\ log[i].to = results[1].log[i].to)
        => SameAnswer(log[i], results[1].log[i])

TwiceNext ==
    \/ Next /\ Replayed' /\ Failed(log') + Slow(log') <= MaxFaults
    \/ Again

\* the two calls are compared for the searches of the first 100,000 blocks
\* against a truthful endpoint that may fail and be slow
TwiceInit == Init /\ prim = "truthful" /\ latest <= 100000

TwiceSpec == TwiceInit /\ [][TwiceNext]_vars

(***************************************************************************)
(* test_rpcs.py: check_max_range, lines 291-308.                           *)
(***************************************************************************)
TEST_RANGES == <<100, 1000, 5000, 10000, 50000>>

\* how one rpc_call of check_max_range may end: a JSON body with a result,
\* a JSON body with an "error" member, or an exception (timeout, HTTP error)
RangeAnswers == {"result", "error", "raise"}

\* the endpoint answers eth_getLogs(fromBlock, toBlock) by the number of
\* blocks asked, toBlock - fromBlock
RangeReply(fromBlock, toBlock) ==
    answers[CHOOSE k \in 1..Len(TEST_RANGES) :
              TEST_RANGES[k] = IntOfHex(toBlock) - IntOfHex(fromBlock)]

\* what check_max_range never touches
searchVars == <<prim, matches, deploy, latest, now, deadline, cursor, window,
                end, lo, hi, ret, cause, log, slept, idx, results, remote,
                has_parquet, parquet>>

\* one iteration of the loop of lines 294-307: the next range is asked from
\* deploy_block; a result makes it the best, an error member or an
\* exception breaks out of the loop, and line 308 returns best
RangeTry ==
    /\ pc = "max_range"
    /\ tried < Len(TEST_RANGES)
    /\ tried' = tried + 1
    /\ \E r \in {TEST_RANGES[tried + 1]} :
         \E data \in {RangeReply(Hex(deploy), Hex(deploy + r))} :
           IF data = "result"
           THEN best' = r /\ pc' = "max_range"
           ELSE best' = best /\ pc' = "max_done"
    /\ UNCHANGED <<searchVars, answers>>

\* the loop is through all of TEST_RANGES; line 308 returns best
RangeReturn ==
    /\ pc = "max_range"
    /\ tried = Len(TEST_RANGES)
    /\ pc' = "max_done"
    /\ UNCHANGED <<searchVars, rangeVars>>

\* check_max_range(url, deploy_block) is called for an endpoint with any
\* pattern of answers to the five ranges
RangeInit ==
    /\ answers \in [1..Len(TEST_RANGES) -> RangeAnswers]
    /\ tried = 0
    /\ best = 0
    /\ pc = "max_range"
    /\ deploy = CHAINS[1].deploy
    /\ prim = "truthful"
    /\ matches = {}
    /\ latest = 0
    /\ now = 0
    /\ deadline = 0
    /\ cursor = 0
    /\ window = 0
    /\ end = 0
    /\ lo = 0
    /\ hi = 0
    /\ ret = None
    /\ cause = "none"
    /\ log = <<>>
    /\ slept = FALSE
    /\ idx = 0
    /\ results = <<>>
    /\ remote = 0
    /\ has_parquet = TRUE
    /\ parquet = Missing

RangeNext == RangeTry \/ RangeReturn

RangeSpec == RangeInit /\ [][RangeNext]_vars

(***************************************************************************)
(* Properties of find_first_event.                                         *)
(***************************************************************************)
Queries(kinds) == {i \in 1..Len(log) : log[i].kind \in kinds}

\* the endpoint answered truthfully and never failed during this search
Reliable == prim = "truthful" /\ Failed(log) = 0

\* the search has returned
Returned == pc = "return"

\* C1: with lowerBound <= upperBound, a non-empty set of match blocks inside
\* the range, a truthful endpoint that never fails and a probe loop that the
\* deadline does not stop, find_first_event returns exactly the minimum
\* match block.
C1_ReturnsMinimalBlock ==
    (/\ Returned
     /\ Reliable
     /\ deploy <= latest
     /\ matches # {}
     /\ cause # "deadline")
    => ret = Some(SetMin(matches))

\* C1 witness: a reliable search over several matches that probed past empty
\* windows, refined, and returned the earliest match.
C1_Witness ==
    /\ Returned
    /\ Reliable
    /\ Cardinality(matches) >= 2
    /\ Cardinality(Queries({"probe"})) >= 3
    /\ Queries({"refine"}) # {}
    /\ ret = Some(SetMin(matches))

\* C4 as stated: when every call fails and costs more than the per-chain
\* budget, the outcome is the timeout one (the return of line 140 after the
\* deadline test) and the time spent exceeds the budget by at most one call.
C4_TimeoutWithinOneCall ==
    (/\ Returned
     /\ Len(log) > 0
     /\ \A i \in 1..Len(log) : ~log[i].ok /\ log[i].took > Budget)
    => /\ cause = "deadline"
       /\ \E i \in 1..Len(log) :
            now - (deadline - Budget) <= Budget + log[i].took

\* the range queries that started at or after the deadline
LateQueries == {i \in 1..Len(log) : log[i].at >= deadline}

\* C5: whatever the endpoint answers (matches, nothing, failures, answers
\* inconsistent between calls), with every call returning and time advancing,
\* the search reaches a terminal outcome; it does not loop on: at most two
\* range queries (a retry, the final fetch) start once the deadline has passed.
C5_Terminates == <>(pc = "return") /\ [](Cardinality(LateQueries) <= 2)

\* C5 witness: a search against an untruthful endpoint that saw a failure, an
\* empty answer and a block outside the queried range, and returned.
C5_Witness ==
    /\ Returned
    /\ prim = "lying"
    /\ \E i \in 1..Len(log) : ~log[i].ok
    /\ \E i \in 1..Len(log) : log[i].ok /\ log[i].n = 0
    /\ \E i \in 1..Len(log) :
         log[i].ok /\ log[i].n > 0 /\ log[i].first > log[i].to
    /\ Cardinality(Queries({"refine"})) >= 2

\* the search is running: lines 104-106 are done
Searching == pc \in {"probe", "retry", "refine", "final", "return"}

\* what a probe or a retry does to the window: a failed probe shrinks it to
\* max(500, window div 4), an empty answer doubles it up to MAX_WINDOW, and
\* anything else leaves it alone
WindowStep ==
    IF Len(log') = Len(log) + 1
    THEN LET q == log'[Len(log')] IN
         window' =
           IF q.kind = "probe" /\ ~q.ok
           THEN (IF window \div 4 > MIN_WINDOW THEN window \div 4 ELSE MIN_WINDOW)
           ELSE IF q.kind \in {"probe", "retry"} /\ q.ok /\ q.n = 0
           THEN (IF 2 * window < MAX_WINDOW THEN 2 * window ELSE MAX_WINDOW)
           ELSE window
    ELSE Searching => window' = window

\* C6: in every state of a search MIN_WINDOW (500) <= window <= MAX_WINDOW,
\* and the window changes only by min(2 * window, MAX_WINDOW) after an empty
\* probe and by max(500, window div 4) after a failed probe.
C6_WindowBounds ==
    /\ [](Searching => MIN_WINDOW <= window /\ window <= MAX_WINDOW)
    /\ [][WindowStep]_vars

\* C6 witness: a search whose window was shrunk to the floor after a failure
\* and later reached the ceiling after empty probes.
C6_Witness ==
    /\ Searching
    /\ window = MAX_WINDOW
    /\ \E i \in 1..Len(log) : log[i].kind = "retry" /\ log[i].window = MIN_WINDOW
    /\ \E i \in 1..Len(log) : log[i].kind = "probe" /\ log[i].window = 1024000

\* the scenario of C8
Scenario8 ==
    /\ deploy = 1000
    /\ latest = 2000000
    /\ matches = {1500037}
    /\ Reliable

\* C8: lowerBound 1000, upperBound 2,000,000, a single match at 1,500,037,
\* initial window 2000, maximum window 2,000,000, reliable truthful endpoint:
\* the search issues at most 19 range queries (10 probes, 8 refinements, the
\* final fetch) and, unless the deadline stops the probe loop, returns
\* exactly 1,500,037.
C8_Scenario ==
    Scenario8 =>
      /\ INIT_WINDOW = 2000 /\ MAX_WINDOW = 2000000
      /\ Len(log) <= 19
      /\ Returned /\ cause # "deadline" => ret = Some(1500037)

\* C8 witness: the scenario ran to its end without slow calls and returned
\* after probes and refinements.
C8_Witness ==
    /\ Scenario8
    /\ Returned
    /\ ret = Some(1500037)
    /\ Cardinality(Queries({"probe"})) = 10
    /\ Cardinality(Queries({"refine"})) = 8
    /\ Cardinality(Queries({"final"})) = 1
    /\ Len(log) = 19
    /\ now < deadline

\* the earliest match lies exactly at lowerBound, and the first probe was
\* answered (truthfully)
Case9 ==
    /\ prim = "truthful"
    /\ deploy <= latest
    /\ deploy \in matches
    /\ Len(log) >= 1
    /\ log[1].ok

\* C9 as stated: the match at lowerBound is returned right after the first
\* probe, with no refinement query and no further query of any kind.
C9_NoFurtherQuery ==
    Case9 =>
      /\ Len(log) = 1
      /\ Returned => ret = Some(deploy)

\* C9 amended: the match at lowerBound is returned with zero skipped blocks
\* and without any refinement query; exactly one query follows the probe
\* that found it, the final precise fetch over [lowerBound, lowerBound].
C9_OnlyFinalFetch ==
    Case9 =>
      /\ Queries({"refine", "retry"}) = {}
      /\ Len(log) <= 2
      /\ Len(log) = 2 =>
           log[2].kind = "final" /\ log[2].fr = deploy /\ log[2].to = deploy
      /\ Returned <=> Len(log) = 2
      /\ Returned => ret = Some(deploy) /\ ret[1] - deploy = 0

\* C9 witness: the first probe found the match at lowerBound, the final fetch
\* failed, and lowerBound was returned all the same.
C9_Witness ==
    /\ Case9
    /\ Returned
    /\ Len(log) = 2
    /\ ~log[2].ok
    /\ ret = Some(deploy)

(***************************************************************************)
(* Properties of scan_chain and main.                                      *)
(***************************************************************************)
\* scan_chain has returned and main is about to record the chain's result
Scanned == pc = "main"

\* the results already recorded whose search ended for one of the reasons
Recorded(causes) == {j \in 1..Len(results) : results[j].cause \in causes}

\* C2 as stated: a chain whose endpoint never failed, reported no match
\* anywhere in [lowerBound, upperBound] and was not stopped by the deadline
\* is classified differently from a chain that timed out and from a chain
\* whose endpoint was unavailable.
C2_NoEventsDistinct ==
    (/\ Scanned
     /\ cause = "exhausted"
     /\ matches = {}
     /\ Failed(log) = 0
     /\ now < deadline)
    => \A j \in Recorded({"deadline", "failed", "head"}) :
         results[j].source # CurrentSource

\* every failed probe is followed by one retry at the same cursor with the
\* window shrunk to max(500, window div 4), a failed retry ends the search
\* with no further query, and no cursor gets more than two probe queries
RetryOnce ==
    /\ \A i \in 1..Len(log) :
         log[i].kind = "probe" /\ ~log[i].ok =>
           IF i = Len(log) THEN pc = "retry"
           ELSE /\ log[i + 1].kind = "retry"
                /\ log[i + 1].fr = log[i].fr
                /\ log[i + 1].window =
                     (IF log[i].window \div 4 > MIN_WINDOW
                      THEN log[i].window \div 4 ELSE MIN_WINDOW)
    /\ \A i \in 1..Len(log) :
         log[i].kind = "retry" /\ ~log[i].ok =>
           i = Len(log) /\ pc \in {"return", "main"} /\ cause = "failed"
    /\ \A i \in 1..Len(log) :
         Cardinality({k \in Queries({"probe", "retry"}) : log[k].fr = log[i].fr})
           <= 2

\* C3 as stated: a failed probe is retried exactly once at the same cursor
\* with the shrunk window, a failed retry stops the search without a further
\* query, no cursor gets more than two probe queries, and the outcome of a
\* search stopped by a failed retry is 'unavailable': classified differently
\* from a timeout and from 'no events'.
C3_RetryThenUnavailable ==
    /\ RetryOnce
    /\ Scanned /\ cause = "failed" =>
         \A j \in Recorded({"deadline", "exhausted"}) :
           results[j].source # CurrentSource

\* C7: when the local resolver returns a block for a chain, scan_chain
\* returns that block with source "parquet" and the chain gets no remote
\* call: no chain-head lookup, no range query, no call of find_first_event.
C7_LocalShortCircuit ==
    (idx > 0 /\ has_parquet /\ parquet.kind = "table" /\ Len(parquet.rows) > 0)
    => /\ Scanned
       /\ ret = Some(parquet.rows[1])
       /\ CurrentSource = "parquet"
       /\ remote = 0
       /\ log = <<>>
       /\ deadline = 0

\* C7 witness: a chain answered from its local file, after an earlier chain
\* that had to be searched remotely.
C7_Witness ==
    /\ Scanned
    /\ parquet = Table(<<1500, 1200>>)
    /\ ret = Some(1500)
    /\ remote = 0
    /\ \E j \in 1..Len(results) : results[j].source = "RPC scan"

\* C10: main produces exactly one result per chain of the list, in list
\* order, whatever the outcome of each chain; nothing stops the loop before
\* the last chain: until then a next step is always possible.
C10_EveryChainReported ==
    /\ idx > 0 => Len(results) = (IF pc = "exit" THEN Len(CHAINS) ELSE idx - 1)
    /\ Len(results) <= Len(CHAINS)
    /\ \A i \in 1..Len(results) :
         /\ results[i].name = CHAINS[i].name
         /\ results[i].chain_id = CHAINS[i].chain_id
         /\ results[i].deploy = CHAINS[i].deploy
    /\ (idx > 0 /\ pc # "exit") => ENABLED MainNext

\* C10 witness: both chains reported although the first lost its probe and
\* its retry; the second was then searched and found.
C10_Witness ==
    /\ pc = "exit"
    /\ Len(results) = Len(CHAINS)
    /\ results[1].cause = "failed" /\ results[1].first = None
    /\ results[2].source = "RPC scan" /\ results[2].first # None

\* the chain-head lookup of the current chain was issued and failed: the
\* call is counted and no head is known (a head that was read is positive)
HeadFailed == idx > 0 /\ remote >= 1 /\ latest = 0

\* C11: if the chain-head lookup fails, the search of that chain never
\* starts (find_first_event is not entered, no range query is issued, the
\* head lookup stays the chain's only remote call), and the chain is
\* reported with an absent block and the source "RPC down".
C11_HeadDown ==
    /\ HeadFailed =>
         /\ Scanned
         /\ ret = None
         /\ CurrentSource = "RPC down"
         /\ log = <<>>
         /\ remote = 1
         /\ deadline = 0
    /\ \A j \in Recorded({"head"}) :
         results[j].first = None /\ results[j].source = "RPC down"
    /\ \A j \in 1..Len(results) :
         results[j].source = "RPC down" => results[j].cause = "head"

\* C11 witness: the second chain lost its head lookup after the first chain
\* had been searched and found.
C11_Witness ==
    /\ HeadFailed
    /\ Scanned
    /\ idx = 2
    /\ results[1].source = "RPC scan"
    /\ ret = None
    /\ log = <<>>

\* the second of two calls of find_first_event is running or has returned
SecondRun == idx = 0 /\ results # <<>>

\* C12: find_first_event run twice with the same inputs against the same
\* deterministic endpoint (same answers, same durations) issues the same
\* sequence of range queries at the same times after entry, and returns the
\* same value by the same return statement; nothing left by the first run
\* changes the second.
C12_Deterministic ==
    SecondRun =>
      /\ Len(log) <= Len(results[1].log)
      /\ \A i \in 1..Len(log) :
           Relative(log, deadline - Budget)[i] = results[1].log[i]
      /\ Returned =>
           /\ ret = results[1].first
           /\ cause = results[1].cause
           /\ Len(log) = Len(results[1].log)

\* C12 witness: a second run that repeated a first run of several probes
\* with a failed one, its retry, a slow call and refinement, no range being
\* asked twice within a run.
C12_Witness ==
    /\ SecondRun
    /\ Returned
    /\ prim = "truthful"
    /\ Queries({"retry"}) # {}
    /\ Queries({"refine"}) # {}
    /\ Slow(log) > 0
    /\ Len(log) >= 6
    /\ \A i, j \in 1..Len(log) :
         i # j => log[i].fr # log[j].fr \/ log[i].to # log[j].to
    /\ ret # None

\* this step issues a remote call: a chain-head lookup or a range query
RemoteCall == remote' = remote + 1

\* the outcomes scan_chain can return
Terminal(r) ==
    \/ r.cause = "parquet" /\ r.source = "parquet" /\ r.first # None
    \/ r.cause = "head" /\ r.source = "RPC down" /\ r.first = None
    \/ r.cause = "found" /\ r.source = "RPC scan" /\ r.first # None
    \/ /\ r.cause \in {"exhausted", "deadline", "failed"}
       /\ r.source = "timeout/no events"
       /\ r.first = None

\* C13: chains are processed strictly one after the other: every remote
\* call is issued for the chain main is at, after each earlier chain of the
\* list has had its terminal outcome recorded, and the range queries of the
\* search in progress all belong to that one chain.
C13_Sequential ==
    /\ [][RemoteCall =>
            /\ idx \in 1..Len(CHAINS)
            /\ deploy = CHAINS[idx].deploy
            /\ Len(results) = idx - 1
            /\ \A j \in 1..(idx - 1) :
                 results[j].name = CHAINS[j].name /\ Terminal(results[j])]_vars
    /\ [](idx > 0 /\ log # <<>> =>
            /\ idx <= Len(CHAINS)
            /\ Len(results) = idx - 1
            /\ \A i \in 1..Len(log) :
                 /\ log[i].fr >= CHAINS[idx].deploy
                 /\ log[i].to <= CHAINS[idx].deploy + 10000)

\* C13 witness: the second chain's search is refining, after the first
\* chain's search was recorded as found.
C13_Witness ==
    /\ idx = 2
    /\ pc = "refine"
    /\ Len(log) >= 3
    /\ Len(results) = 1
    /\ results[1].cause = "found"

\* the least block_number of a non-empty column
MinRow(rows) ==
    CHOOSE m \in {rows[i] : i \in 1..Len(rows)} :
      \A i \in 1..Len(rows) : m <= rows[i]

\* C14 as stated: for every non-empty local dataset, whatever the order of
\* its rows, the block scan_chain takes from the local file is the minimum
\* block_number over all rows.
C14_LocalMinimum ==
    (/\ Scanned
     /\ cause = "parquet"
     /\ parquet.kind = "table"
     /\ Len(parquet.rows) > 0)
    => ret = Some(MinRow(parquet.rows))

\* the local file of the current chain has been looked at and holds no
\* usable row: pyarrow is not there, or the file is missing, unreadable or
\* unparsable, or its table is empty
NoLocalData ==
    /\ idx > 0
    /\ pc \notin {"scan", "exit"}
    /\ \/ ~has_parquet
       \/ parquet.kind \in {"missing", "corrupt"}
       \/ Len(parquet.rows) = 0

\* C15: a missing, empty, unreadable or unparsable local dataset makes
\* from_local_parquet return None, not an error and not a block, and
\* scan_chain goes on: the chain-head lookup is the next step, and once the
\* head is known find_first_event is called; the chain's result is never
\* the local one.
C15_LocalFallthrough ==
    NoLocalData =>
      /\ from_local_parquet(parquet) = None
      /\ cause # "parquet"
      /\ pc = "head" <=> remote = 0
      /\ (remote >= 1 /\ latest > 0) =>
           /\ pc \in {"find", "probe", "retry", "refine", "final", "return",
                      "main"}
           /\ pc # "find" => deadline > 0
      /\ Scanned =>
           cause \in {"head", "exhausted", "deadline", "failed", "found"}

\* C15 witness: the chain's file could not be read, and the chain was
\* searched remotely and found.
C15_Witness ==
    /\ NoLocalData
    /\ parquet = Corrupt
    /\ Scanned
    /\ cause = "found"
    /\ remote >= 3
    /\ ret # None

\* how far the blocks from deploy upwards are covered, without a gap, by
\* the first i range queries that were answered with an empty list (the
\* queries of a search start at non-decreasing blocks)
CoveredTo(i) ==
    LET upTo[k \in 0..i] ==
          IF k = 0 THEN deploy
          ELSE IF /\ log[k].ok
                  /\ log[k].n = 0
                  /\ log[k].fr <= upTo[k - 1]
                  /\ log[k].to >= upTo[k - 1]
               THEN log[k].to + 1
               ELSE upTo[k - 1]
    IN upTo[i]

\* C16 as stated: in every state of the probe loop, every block b with
\* deploy <= b < cursor lies in a range query that was answered with an
\* empty list; also after a failed probe whose retry over the smaller window
\* came back empty.
C16_NoBlockSkipped ==
    pc = "probe" => CoveredTo(Len(log)) >= cursor

\* a probe (first attempt or retry) has been answered with a non-empty list
Located ==
    \E i \in Queries({"probe", "retry"}) : log[i].ok /\ log[i].n > 0

\* what a located search returns: a block, by the return of line 134, after
\* the final query; the frontier hi when the final query failed or came
\* back empty (and also when a truthful endpoint answered it)
LocatedOutcome ==
    (Located /\ Returned) =>
      /\ ret # None
      /\ cause = "found"
      /\ log[Len(log)].kind = "final"
      /\ (~log[Len(log)].ok \/ log[Len(log)].n = 0 \/ prim = "truthful")
           => ret = Some(hi)

\* C17: once a probe has returned a non-empty result the search ends, and
\* ends with a located block: a failure or the deadline during refinement,
\* or a failed or empty final query, never makes it return None; the result
\* is then the current upper frontier hi.
C17_LocatedStays == [](LocatedOutcome) /\ (Located ~> Returned)

\* C17 witness: refinement was broken off by a failed query, the final query
\* failed too, and the frontier hi was returned.
C17_Witness ==
    /\ Located
    /\ Returned
    /\ \E i \in Queries({"refine"}) : ~log[i].ok
    /\ \E i \in Queries({"final"}) : ~log[i].ok
    /\ ret = Some(hi)
    /\ hi - lo > INIT_WINDOW

\* C18 as stated: no probe query, first attempt or shrink-and-retry, and no
\* refinement query starts once the deadline has elapsed; a query that
\* starts at or after the deadline is the final fetch over [lo, hi], and
\* there is at most one.
C18_NoLateStart ==
    /\ \A i \in LateQueries : log[i].kind = "final"
    /\ Cardinality(LateQueries) <= 1

\* C19: the search issues exactly one final query, over [lo, hi], once
\* refinement has stopped (a refinement query failed, the frontier is no
\* wider than INIT_WINDOW, or the deadline has passed); it returns the block
\* of that query's first log when the answer is non-empty and hi otherwise,
\* and no query follows the final one.
C19_OneFinalQuery ==
    /\ Cardinality(Queries({"final"})) <= 1
    /\ (Returned /\ cause = "found") <=> Queries({"final"}) # {}
    /\ \A i \in Queries({"final"}) :
         /\ i = Len(log)
         /\ log[i].fr = lo
         /\ log[i].to = hi
         /\ \/ i > 1 /\ log[i - 1].kind = "refine" /\ ~log[i - 1].ok
            \/ hi - lo <= INIT_WINDOW
            \/ log[i].at >= deadline
         /\ ret = Some(IF log[i].ok /\ log[i].n > 0 THEN log[i].first ELSE hi)

\* C19 witness: after several refinement queries the final query over
\* [lo, hi] was answered with a block other than hi, and that block was
\* returned.
C19_Witness ==
    /\ Returned
    /\ Cardinality(Queries({"refine"})) >= 2
    /\ log[Len(log)].kind = "final"
    /\ log[Len(log)].ok
    /\ log[Len(log)].n > 0
    /\ log[Len(log)].first # hi
    /\ ret = Some(log[Len(log)].first)

\* the query this step issued was a probe, first attempt or retry, that was
\* answered with an empty list
EmptyProbe ==
    /\ Len(log') = Len(log) + 1
    /\ log'[Len(log')].kind \in {"probe", "retry"}
    /\ log'[Len(log')].ok
    /\ log'[Len(log')].n = 0

\* once set at line 105 the cursor never goes back, and it moves forward
\* after every empty probe
CursorStep ==
    pc # "find" =>
      /\ cursor' >= cursor
      /\ EmptyProbe => cursor' > cursor

\* a refinement step against a truthful endpoint does not lower lo and
\* does not raise hi, and narrows [lo, hi] when the query is answered
FrontierStep ==
    (prim = "truthful" /\ pc = "refine") =>
      /\ lo' >= lo
      /\ hi' <= hi
      /\ (pc' = "refine") => hi' - lo' < hi - lo

\* C20: across probe steps the cursor never decreases and strictly
\* increases after every empty probe; during refinement against a truthful
\* endpoint lo never decreases and hi never increases; against a truthful
\* endpoint lo <= hi in every state.
C20_Monotone ==
    /\ [][CursorStep /\ FrontierStep]_vars
    /\ [](prim = "truthful" => lo <= hi)

\* C20 witness: a truthful search whose cursor moved forward over empty
\* windows and whose refinement raised lo above the cursor, below hi.
C20_Witness ==
    /\ prim = "truthful"
    /\ pc = "refine"
    /\ cursor > deploy
    /\ Cardinality(Queries({"refine"})) >= 2
    /\ lo > cursor
    /\ lo <= hi
    /\ hi = SetMin(matches)

\* C21: with deploy <= latest and a truthful endpoint, every range query of
\* a search (probe, retry, refinement, final) asks an inclusive range with
\* deploy <= from <= to <= latest, and a probe or retry query asks
\* [cursor, min(cursor + window - 1, latest)] for the cursor and the window
\* it was issued with.
C21_WellFormedRanges ==
    (prim = "truthful" /\ deploy <= latest) =>
      /\ \A i \in 1..Len(log) :
           /\ deploy <= log[i].fr
           /\ log[i].fr <= log[i].to
           /\ log[i].to <= latest
      /\ \A i \in Queries({"probe", "retry"}) :
           log[i].to = Min2(log[i].fr + log[i].window - 1, latest)
      /\ Len(log) > 0 => log[1].fr = deploy
      /\ pc = "retry" => log[Len(log)].fr = cursor
      /\ \A i \in Queries({"retry"}) : log[i].fr = log[i - 1].fr

\* C21 witness: a truthful search that issued a retry, a probe capped at
\* the chain head, refinement queries and the final query.
C21_Witness ==
    /\ prim = "truthful"
    /\ Returned
    /\ Queries({"retry"}) # {}
    /\ Queries({"refine"}) # {}
    /\ Queries({"final"}) # {}
    /\ \E i \in Queries({"probe"}) :
         log[i].to = latest /\ latest < log[i].fr + log[i].window - 1

\* the least k with 2^k >= n, for 1 <= n <= 2^32
CeilLog2(n) == CHOOSE k \in 0..32 : 2^k >= n /\ (k = 0 \/ 2^(k - 1) < n)

\* the number of blocks of the range whose probe (or retry) was answered
\* with a non-empty list, 1 before there is one
HitWidth ==
    IF Located
    THEN LET i == CHOOSE k \in Queries({"probe", "retry"}) :
                    log[k].ok /\ log[k].n > 0
         IN log[i].to - log[i].fr + 1
    ELSE 1

\* a refinement query is issued only while hi - lo > INIT_WINDOW, and one
\* that a truthful endpoint answers leaves at most half of hi - lo
HalvingStep ==
    (prim = "truthful" /\ Len(log') = Len(log) + 1
       /\ log'[Len(log')].kind = "refine") =>
      /\ hi - lo > INIT_WINDOW
      /\ log'[Len(log')].ok => 2 * (hi' - lo') <= hi - lo

\* C22: against a truthful endpoint every answered refinement query at
\* least halves hi - lo, refinement queries are issued only while hi - lo
\* exceeds INIT_WINDOW, and a search issues at most ceil(log2(width of the
\* hit window)) refinement queries.
C22_LogarithmicRefinement ==
    /\ [][HalvingStep]_vars
    /\ [](prim = "truthful" =>
            Cardinality(Queries({"refine"})) <= CeilLog2(HitWidth))

\* C22 witness: a truthful search that refined a hit window of more than
\* 900,000 blocks with eight answered queries down to INIT_WINDOW or less.
C22_Witness ==
    /\ prim = "truthful"
    /\ Returned
    /\ HitWidth > 900000
    /\ Cardinality(Queries({"refine"})) = 8
    /\ \A i \in Queries({"refine"}) : log[i].ok
    /\ hi - lo <= INIT_WINDOW

\* C23 as stated: every probe query after the first one of a search, first
\* attempt or shrink-and-retry, is issued after a pacing sleep that followed
\* the query before it; no refinement query and no final query is.
C23_Pacing ==
    \A i \in 2..Len(log) :
      log[i].paced <=> log[i].kind \in {"probe", "retry"}

\* C24 as stated: the probe window follows the schedule of the module
\* docstring: the first probe is issued with a window of 2,000 blocks and
\* no probe or retry is ever issued with a window of more than 1,000,000
\* blocks.
C24_DocumentedSchedule ==
    /\ Len(log) > 0 => log[1].window = 2000
    /\ \A i \in Queries({"probe", "retry"}) : log[i].window <= 1000000
    /\ Searching => window <= 1000000

\* the queries that were answered with a non-empty list, whose first log
\* the search has seen
Hits == {i \in 1..Len(log) : log[i].ok /\ log[i].n > 0}

\* C25: against a truthful endpoint, with failures, slow calls and deadline
\* expiry allowed, a block B returned by the search was reported as the
\* block of a match by an answered range query of the same search (and
\* holds a match), deploy <= B <= latest, and B is not greater than the
\* first match block of the probe that ended the probe loop.
C25_ReturnedBlockReported ==
    (prim = "truthful" /\ Returned /\ ret # None) =>
      /\ \E i \in Hits : log[i].first = ret[1]
      /\ ret[1] \in matches
      /\ deploy <= ret[1]
      /\ ret[1] <= latest
      /\ \A i \in Hits :
           log[i].kind \in {"probe", "retry"} => ret[1] <= log[i].first

\* C25 witness: a truthful search over several matches whose refinement
\* was broken off by a failed query and whose final query failed: the block
\* returned is the one the probe reported.
C25_Witness ==
    /\ prim = "truthful"
    /\ Returned
    /\ ret # None
    /\ Cardinality(matches) >= 2
    /\ \E i \in Queries({"refine"}) : ~log[i].ok
    /\ ~log[Len(log)].ok
    /\ \E i \in Hits : log[i].kind = "probe" /\ log[i].first = ret[1]

\* C26: the final query spans at most INIT_WINDOW + 1 blocks
\* (hi - lo <= INIT_WINDOW) when refinement ended by itself; it spans more
\* only when the refinement query before it failed or when it was issued at
\* or after the deadline.
C26_FinalSpan ==
    /\ \A i \in Queries({"final"}) :
         log[i].to - log[i].fr > INIT_WINDOW =>
           \/ log[i].at >= deadline
           \/ i > 1 /\ log[i - 1].kind = "refine" /\ ~log[i - 1].ok
    /\ pc = "final" =>
         log[Len(log)].kind = "refine" /\ ~log[Len(log)].ok

\* C26 witness: refinement ran to its end before the deadline with every
\* query answered, and the final query spans no more than INIT_WINDOW + 1
\* blocks of a frontier that was wider.
C26_Witness ==
    /\ Returned
    /\ Cardinality(Queries({"refine"})) >= 3
    /\ \A i \in Queries({"refine"}) : log[i].ok
    /\ log[Len(log)].kind = "final"
    /\ log[Len(log)].at < deadline
    /\ log[Len(log)].to - log[Len(log)].fr <= INIT_WINDOW
    /\ log[Len(log)].to - log[Len(log)].fr > 0

(***************************************************************************)
(* Properties of check_max_range.                                          *)
(***************************************************************************)
\* the ranges of TEST_RANGES that the endpoint answers with a result
Succeeding ==
    {TEST_RANGES[k] : k \in {j \in 1..Len(TEST_RANGES) : answers[j] = "result"}}

\* C27 as stated: for every pattern of per-range success and failure,
\* check_max_range returns the largest range of TEST_RANGES for which the
\* endpoint's eth_getLogs call succeeds, and 0 if none succeeds.
C27_LargestSucceedingRange ==
    pc = "max_done" =>
      best = (IF Succeeding = {} THEN 0
              ELSE CHOOSE m \in Succeeding : \A n \in Succeeding : n <= m)

====
